---- MODULE Spec2Model ----
(***************************************************************************)
(* FitLog workout handler (lambda/workout_handler.py) and the data bucket  *)
(* it writes to (fitlog_stack/fitlog_stack.py).                            *)
(*                                                                         *)
(* One invocation of lambda_handler is a process with three positions:     *)
(* the code up to the first service call (routing, decoding, validation,   *)
(* conversion; it touches no shared state but the clock), s3.put_object,   *)
(* and sns.publish.  Invocations interleave at these calls only.           *)
(***************************************************************************)
EXTENDS Integers, Sequences, FiniteSets, TLC

(***************************************************************************)
(* Python / JSON values.  A JSON string is a sequence of characters; a     *)
(* float is written w.f with f the fractional digits without trailing      *)
(* zeros (135.0 is FloatV(135, <<>>), 72.5 is FloatV(72, <<5>>)).  Only    *)
(* non-negative numbers and the characters 0-9, "." and letters without a  *)
(* numeric meaning (no sign, exponent, underscore, blank, inf, nan) occur. *)
(***************************************************************************)
NoneV == [t |-> "None"]

Absent == [t |-> "absent"]

StrV(s) == [t |-> "str", s |-> s]

IntV(n) == [t |-> "int", n |-> n]

FloatV(w, f) == [t |-> "float", w |-> w, f |-> f]

Exc(type) == [t |-> "exc", type |-> type]

IsExc(v) == v.t = "exc"

Missing == "<missing>"

\* bool(v), as `if x`, `not x` and `x or y` use it
Truthy(v) ==
    CASE v.t = "None" -> FALSE
      [] v.t = "str" -> Len(v.s) > 0
      [] v.t = "int" -> v.n # 0
      [] v.t = "float" -> ~(v.w = 0 /\ v.f = <<>>)
      [] OTHER -> TRUE

IsDigit(c) == c \in {"0", "1", "2", "3", "4", "5", "6", "7", "8", "9"}

DigitVal(c) ==
    CASE c = "0" -> 0 [] c = "1" -> 1 [] c = "2" -> 2 [] c = "3" -> 3
      [] c = "4" -> 4 [] c = "5" -> 5 [] c = "6" -> 6 [] c = "7" -> 7
      [] c = "8" -> 8 [] c = "9" -> 9

RECURSIVE DigitsToNat(_)
DigitsToNat(s) ==
    IF s = <<>> THEN 0
    ELSE DigitsToNat(SubSeq(s, 1, Len(s) - 1)) * 10 + DigitVal(s[Len(s)])

RECURSIVE StripZeros(_)
StripZeros(f) ==
    IF f # <<>> /\ f[Len(f)] = 0 THEN StripZeros(SubSeq(f, 1, Len(f) - 1)) ELSE f

IsIntLiteral(s) == Len(s) > 0 /\ \A k \in 1..Len(s) : IsDigit(s[k])

Dots(s) == {k \in 1..Len(s) : s[k] = "."}

IsFloatLiteral(s) ==
    /\ \A k \in 1..Len(s) : IsDigit(s[k]) \/ s[k] = "."
    /\ Cardinality(Dots(s)) <= 1
    /\ \E k \in 1..Len(s) : IsDigit(s[k])

FloatOfLiteral(s) ==
    LET p == IF Dots(s) = {} THEN Len(s) + 1 ELSE CHOOSE k \in Dots(s) : TRUE
        frac == SubSeq(s, p + 1, Len(s))
    IN FloatV(DigitsToNat(SubSeq(s, 1, p - 1)),
             StripZeros([k \in 1..Len(frac) |-> DigitVal(frac[k])]))

\* int(v)
PyInt(v) ==
    CASE v.t = "int" -> v
      [] v.t = "float" -> IntV(v.w)
      [] v.t = "str" -> IF IsIntLiteral(v.s) THEN IntV(DigitsToNat(v.s)) ELSE Exc("ValueError")
      [] OTHER -> Exc("TypeError")

\* faulty variant: float(v) with the ValueError swallowed
PyFloat_Lenient(v) ==
    CASE v.t = "int" -> FloatV(v.n, <<>>)
      [] v.t = "float" -> v
      [] v.t = "str" -> IF IsFloatLiteral(v.s) THEN FloatOfLiteral(v.s) ELSE NoneV
      [] OTHER -> Exc("TypeError")

\* float(v)
PyFloat(v) ==
    CASE v.t = "int" -> FloatV(v.n, <<>>)
      [] v.t = "float" -> v
      [] v.t = "str" -> IF IsFloatLiteral(v.s) THEN FloatOfLiteral(v.s) ELSE Exc("ValueError")
      [] OTHER -> Exc("TypeError")

\* faulty variant: int(sets), without the guard
IntOrNone_Unguarded(x) == PyInt(x)

\* int(sets) if sets else None
IntOrNone(x) == IF Truthy(x) THEN PyInt(x) ELSE NoneV

\* float(weight) if weight else None
FloatOrNone(x) == IF Truthy(x) THEN PyFloat(x) ELSE NoneV

\* sets or 'N/A'
OrNA(x) == IF Truthy(x) THEN x ELSE StrV(<<"N", "/", "A">>)

\* dict.get(key, default): the default only when the key is missing
Get(fields, key, default) == IF fields[key] = Absent THEN default ELSE fields[key]

(***************************************************************************)
(* Text the handler and the requests use.                                  *)
(***************************************************************************)
Anonymous == <<"a", "n", "o", "n", "y", "m", "o", "u", "s">>

U1 == <<"u", "1">>

Squat == <<"S", "q", "u", "a", "t">>

Plank == <<"P", "l", "a", "n", "k">>

MOTIVATIONAL_MESSAGES ==
    << "Great workout! Keep pushing!",
       "You're crushing it! Consistency is key!",
       "Workout logged! Your dedication is impressive!",
       "Another step closer to your goals! Keep it up!",
       "Fantastic effort! Your future self will thank you!",
       "Beast mode activated! Well done!",
       "Progress over perfection! You're doing amazing!",
       "Every rep counts! Great job today!" >>

(***************************************************************************)
(* The clock datetime.utcnow() reads: three instants, the first two in the *)
(* same second, the third in the next second.                              *)
(***************************************************************************)
Instants ==
    << [Y |-> 2026, m |-> 11, d |-> 3, H |-> 10, M |-> 15, S |-> 7, us |-> 0],
       [Y |-> 2026, m |-> 11, d |-> 3, H |-> 10, M |-> 15, S |-> 7, us |-> 500000],
       [Y |-> 2026, m |-> 11, d |-> 3, H |-> 10, M |-> 15, S |-> 8, us |-> 0] >>

\* timestamp.isoformat()
isoformat(ts) == <<ts.Y, ts.m, ts.d, "T", ts.H, ts.M, ts.S, ts.us>>

\* timestamp.strftime('%Y-%m-%d')
strftime_date(ts) == <<ts.Y, ts.m, ts.d>>

\* timestamp.strftime('%H:%M:%S')
strftime_time(ts) == <<ts.H, ts.M, ts.S>>

\* faulty variant: the key's name cut at the minute: '%Y-%m-%d_%H-%M'
FileKey_NoSeconds(user_id, ts) ==
    [prefix |-> user_id.s, ym |-> <<ts.Y, ts.m>>,
     name |-> <<ts.Y, ts.m, ts.d, ts.H, ts.M>>, ext |-> ".json"]

\* faulty variant: the key made with the default user id
FileKey_Anonymous(user_id, ts) ==
    [prefix |-> Anonymous, ym |-> <<ts.Y, ts.m>>,
     name |-> <<ts.Y, ts.m, ts.d, ts.H, ts.M, ts.S>>, ext |-> ".json"]

\* f"{user_id}/{timestamp.strftime('%Y/%m')}/{timestamp.strftime('%Y-%m-%d_%H-%M-%S')}.json"
FileKey(user_id, ts) ==
    [prefix |-> user_id.s, ym |-> <<ts.Y, ts.m>>,
     name |-> <<ts.Y, ts.m, ts.d, ts.H, ts.M, ts.S>>, ext |-> ".json"]

CorsHeaders ==
    [ContentType |-> "application/json",
     AllowOrigin |-> "*",
     AllowHeaders |-> "Content-Type,X-Amz-Date,Authorization,X-Api-Key,X-Amz-Security-Token",
     AllowMethods |-> "OPTIONS,POST,GET"]

\* the body is kept as the value json.dumps encodes
create_response(status_code, body) ==
    [statusCode |-> status_code, headers |-> CorsHeaders, body |-> body]

(***************************************************************************)
(* lambda_handler up to the first service call.                            *)
(*                                                                         *)
(* An event is [rcMethod, httpMethod, rawPath, path, body]: rcMethod is    *)
(* requestContext.http.method, each of the four Missing when the key is    *)
(* not in the event.  body is [kind, fields]:                              *)
(*   nokey        no 'body' key: the event itself holds the fields         *)
(*   str_object   a str holding a JSON object                              *)
(*   str_other    a str holding JSON that is no object ([], 5, "x", null)  *)
(*   str_invalid  a str json.loads rejects                                 *)
(*   dict         an already decoded dict                                  *)
(*   none         'body': null                                             *)
(* fields maps the seven keys read or ignored to a value or Absent.        *)
(* requestContext, when the event has one, is an object, as each of the    *)
(* three supported front ends sends it.                                    *)
(***************************************************************************)
\* faulty variant: event.get('httpMethod') alone
request_method_HttpOnly(event) == event.httpMethod

request_method(event) ==
    IF event.rcMethod # Missing THEN event.rcMethod ELSE event.httpMethod

\* faulty variant: the rawPath test alone
IsHealthPath_RawOnly(event) == event.rawPath = "/health"

IsHealthPath(event) == event.rawPath = "/health" \/ event.path = "/health"

ParseBody(event) ==
    CASE event.body.kind \in {"nokey", "str_object", "dict"} ->
            [t |-> "dict", fields |-> event.body.fields]
      [] event.body.kind = "str_other" -> [t |-> "nondict"]
      [] event.body.kind = "str_invalid" -> Exc("JSONDecodeError")
      [] event.body.kind = "none" -> NoneV

\* faulty variant: a conversion error reported as a validation error
Failed_ValueErrorAs400(e) ==
    create_response(IF e.type = "ValueError" THEN 400 ELSE 500,
                    [error |-> "Failed to log workout", details |-> e.type])

\* except Exception as e: ... return create_response(500, ...)
Failed(e) ==
    create_response(500, [error |-> "Failed to log workout", details |-> e.type])

Returned(response) ==
    [pc |-> "done", timestamp |-> NoneV, workout_data |-> NoneV,
     file_key |-> NoneV, response |-> response]

\* faulty variant: if exercise is None
ExerciseMissing_IsNone(exercise) == exercise = NoneV

\* if not exercise
ExerciseMissing(exercise) == ~Truthy(exercise)

WorkoutData(user_id, exercise, s, r, w, notes, ts) ==
    [userId |-> user_id, exercise |-> exercise, sets |-> s, reps |-> r,
     weight |-> w, notes |-> notes, timestamp |-> isoformat(ts),
     date |-> strftime_date(ts), time |-> strftime_time(ts)]

Ingest(fields, now) ==
    LET user_id == Get(fields, "userId", StrV(Anonymous))
        exercise == Get(fields, "exercise", NoneV)
        sets == Get(fields, "sets", NoneV)
        reps == Get(fields, "reps", NoneV)
        weight == Get(fields, "weight", NoneV)
        notes == Get(fields, "notes", StrV(<<>>))
    IN  IF ExerciseMissing(exercise)
        THEN Returned(create_response(400, [error |-> "Exercise name is required"]))
        ELSE LET s == IntOrNone(sets)
                 r == IntOrNone(reps)
                 w == FloatOrNone(weight)
             IN  IF IsExc(s) THEN Returned(Failed(s))
                 ELSE IF IsExc(r) THEN Returned(Failed(r))
                 ELSE IF IsExc(w) THEN Returned(Failed(w))
                 ELSE [pc |-> "put", timestamp |-> now,
                       workout_data |-> WorkoutData(user_id, exercise, s, r, w, notes, now),
                       file_key |-> FileKey(user_id, now),
                       response |-> NoneV]

HandlerHead(event, now) ==
    IF request_method(event) = "OPTIONS"
    THEN Returned(create_response(200, [message |-> "CORS preflight"]))
    ELSE IF IsHealthPath(event)
    THEN Returned(create_response(200, [status |-> "healthy", message |-> "Lambda is running"]))
    ELSE LET body == ParseBody(event)
         IN  IF IsExc(body) THEN Returned(Failed(body))
             ELSE IF body.t # "dict" THEN Returned(Failed(Exc("AttributeError")))
             ELSE Ingest(body.fields, now)

(***************************************************************************)
(* Requests.                                                               *)
(***************************************************************************)
FieldNames == {"userId", "exercise", "sets", "reps", "weight", "notes", "timestamp"}

NoFields == [k \in FieldNames |-> Absent]

Fields(uid, ex, s, r, w, n, t) ==
    [userId |-> uid, exercise |-> ex, sets |-> s, reps |-> r, weight |-> w,
     notes |-> n, timestamp |-> t]

Abc == StrV(<<"a", "b", "c">>)

ClientTs == StrV(<<"1", "9", "7", "0">>)

GoodFields == Fields(StrV(U1), StrV(Squat), IntV(3), IntV(10), IntV(135), StrV(<<"o", "k">>), ClientTs)

Post(kind, fields) ==
    [rcMethod |-> "POST", httpMethod |-> Missing, rawPath |-> "/workout", path |-> Missing,
     body |-> [kind |-> kind, fields |-> fields]]

ExerciseValues == {Absent, NoneV, StrV(<<>>), StrV(Squat)}

SetsValues ==
    {Absent, NoneV, IntV(0), IntV(3), FloatV(3, <<7>>), StrV(<<>>), StrV(<<"3">>),
     StrV(<<"3", ".", "5">>), Abc}

RepsValues == {Absent, IntV(0), IntV(10), StrV(<<"x">>)}

WeightValues ==
    {Absent, NoneV, IntV(0), IntV(135), FloatV(0, <<>>), FloatV(72, <<5>>), StrV(<<>>),
     StrV(<<"1", "3", "5">>), StrV(<<"7", "2", ".", "5", "0">>), StrV(<<".">>), Abc}

SampleBodies ==
    {[kind |-> k, fields |-> f] :
        k \in {"nokey", "str_object", "dict"},
        f \in {GoodFields,
               [GoodFields EXCEPT !.exercise = Absent],
               [GoodFields EXCEPT !.sets = Abc]}}
    \cup {[kind |-> k, fields |-> NoFields] : k \in {"str_other", "str_invalid", "none"}}

\* every routing of a request, over a few bodies
RoutingEvents ==
    [rcMethod : {Missing, "OPTIONS", "POST"}, httpMethod : {Missing, "OPTIONS", "POST"},
     rawPath : {Missing, "/health", "/workout"}, path : {Missing, "/health", "/workout"},
     body : SampleBodies]

\* every body of an ingest request, over one routing
FieldEvents ==
    {Post("str_object", Fields(uid, ex, s, r, w, n, Absent)) :
        uid \in {Absent, StrV(U1)}, ex \in ExerciseValues, s \in SetsValues,
        r \in RepsValues, w \in WeightValues, n \in {Absent, StrV(<<"o", "k">>)}}

Events == RoutingEvents \cup FieldEvents

\* the requests of the concurrent specification
SharedEvents ==
    { Post("str_object", GoodFields),
      Post("nokey", Fields(Absent, StrV(Plank), Absent, Absent, IntV(0), Absent, Absent)),
      Post("str_object", [GoodFields EXCEPT !.exercise = StrV(<<>>)]),
      Post("str_object", [GoodFields EXCEPT !.weight = Abc]),
      [Post("str_object", GoodFields) EXCEPT !.rcMethod = "OPTIONS"],
      [Post("str_object", GoodFields) EXCEPT !.rcMethod = "GET", !.rawPath = "/health"] }

(***************************************************************************)
(* State.                                                                  *)
(*   inv    each invocation: its position pc (idle, put, publish, done),   *)
(*          its event, the handler's locals and response, and (history)    *)
(*          the service calls it has made, in order                        *)
(*   s3     the data bucket: for each key written, its versions, oldest    *)
(*          first (the bucket is versioned, so a put to an existing key    *)
(*          adds a version and the latest is the key's current object)     *)
(*   sns    the messages published to the topic                            *)
(*   clock  the index in Instants of the current instant                   *)
(***************************************************************************)
VARIABLES inv, s3, sns, clock

vars == <<inv, s3, sns, clock>>

MaxInv == 2

Invocations == 1..MaxInv

Idle ==
    [pc |-> "idle", event |-> NoneV, timestamp |-> NoneV, workout_data |-> NoneV,
     file_key |-> NoneV, response |-> NoneV, calls |-> <<>>]

Init ==
    /\ inv = [i \in Invocations |-> Idle]
    /\ s3 = <<>>
    /\ sns = {}
    /\ clock = 1

\* datetime.utcnow()
utcnow == Instants[clock]

\* the platform calls lambda_handler(event, context); invocations are numbered
\* in the order they start
Invoke(i, requests) ==
    /\ inv[i].pc = "idle"
    /\ \A j \in 1..(i - 1) : inv[j].pc # "idle"
    /\ \E event \in requests :
          inv' = [inv EXCEPT ![i] =
                    [event |-> event, calls |-> <<>>] @@ HandlerHead(event, utcnow)]
    /\ UNCHANGED <<s3, sns, clock>>

Versions(bucket, key) == IF key \in DOMAIN bucket THEN bucket[key] ELSE <<>>

\* faulty variant: an unversioned bucket: a put replaces the key's object
PutVersion_Unversioned(bucket, key, object) ==
    [k \in DOMAIN bucket \cup {key} |-> IF k = key THEN <<object>> ELSE bucket[k]]

\* versioned=True: a put keeps the key's earlier versions
PutVersion(bucket, key, object) ==
    [k \in DOMAIN bucket \cup {key} |->
        IF k = key THEN Append(Versions(bucket, key), object) ELSE bucket[k]]

Called(i, api, ok) == Append(inv[i].calls, [api |-> api, ok |-> ok])

\* s3.put_object(Bucket, Key, Body, ContentType, Metadata); it raises when the call fails
PutObject(i) ==
    /\ inv[i].pc = "put"
    /\ \E ok \in BOOLEAN :
        IF ok
        THEN /\ s3' = PutVersion(s3, inv[i].file_key,
                         [Body |-> inv[i].workout_data,
                          Metadata |-> [user_id |-> inv[i].workout_data.userId.s,
                                        exercise |-> inv[i].workout_data.exercise.s,
                                        date |-> inv[i].workout_data.date],
                          by |-> i])
             /\ inv' = [inv EXCEPT ![i].pc = "publish",
                                   ![i].calls = Called(i, "put_object", TRUE)]
        ELSE /\ s3' = s3
             /\ inv' = [inv EXCEPT ![i].pc = "done",
                                   ![i].response = Failed(Exc("ClientError")),
                                   ![i].calls = Called(i, "put_object", FALSE)]
    /\ UNCHANGED <<sns, clock>>

Summary(message, event, workout_data) ==
    LET f == ParseBody(event).fields
    IN  [motivation |-> message,
         Exercise |-> workout_data.exercise,
         Sets |-> OrNA(Get(f, "sets", NoneV)),
         Reps |-> OrNA(Get(f, "reps", NoneV)),
         Weight |-> OrNA(Get(f, "weight", NoneV)),
         Date |-> workout_data.date,
         Time |-> workout_data.time,
         Notes |-> workout_data.notes]

Success(workout_data, message) ==
    create_response(200, [message |-> "Workout logged successfully!",
                          data |-> workout_data,
                          motivation |-> message])

\* message = random.choice(MOTIVATIONAL_MESSAGES); sns.publish(...); return 200
Publish(i) ==
    /\ inv[i].pc = "publish"
    /\ \E ok \in BOOLEAN :
        IF ok
        THEN \E k \in 1..Len(MOTIVATIONAL_MESSAGES) :
               LET message == MOTIVATIONAL_MESSAGES[k]
               IN  /\ sns' = sns \cup
                               {[Subject |-> <<"FitLog: Workout Logged - ",
                                               inv[i].workout_data.exercise.s>>,
                                 Message |-> Summary(message, inv[i].event, inv[i].workout_data),
                                 by |-> i]}
                   /\ inv' = [inv EXCEPT ![i].pc = "done",
                                         ![i].response = Success(inv[i].workout_data, message),
                                         ![i].calls = Called(i, "publish", TRUE)]
        ELSE /\ sns' = sns
             /\ inv' = [inv EXCEPT ![i].pc = "done",
                                   ![i].response = Failed(Exc("ClientError")),
                                   ![i].calls = Called(i, "publish", FALSE)]
    /\ UNCHANGED <<s3, clock>>

\* time passes
Tick ==
    /\ clock < Len(Instants)
    /\ clock' = clock + 1
    /\ UNCHANGED <<inv, s3, sns>>

Next ==
    \/ \E i \in Invocations : Invoke(i, SharedEvents)
    \/ \E i \in Invocations : PutObject(i)
    \/ \E i \in Invocations : Publish(i)
    \/ Tick

Spec == Init /\ [][Next]_vars

\* one invocation, over every request
NextOne ==
    \/ Invoke(1, Events)
    \/ PutObject(1)
    \/ Publish(1)
    \/ Tick

SpecOne == Init /\ [][NextOne]_vars

(***************************************************************************)
(* What the claims speak of, stated on the request and the state alone.    *)
(***************************************************************************)
Started(i) == inv[i].pc # "idle"

Done(i) == inv[i].pc = "done"

Status(i) == inv[i].response.statusCode

IsOptionsRequest(ev) ==
    ev.rcMethod = "OPTIONS" \/ (ev.rcMethod = Missing /\ ev.httpMethod = "OPTIONS")

IsHealthRequest(ev) == "/health" \in {ev.rawPath, ev.path}

IsIngestRequest(ev) == ~IsOptionsRequest(ev) /\ ~IsHealthRequest(ev)

BodyIsObject(ev) == ev.body.kind \in {"nokey", "str_object", "dict"}

BodyDecodes(ev) == ev.body.kind # "str_invalid"

Field(ev, k) == ev.body.fields[k]

ExerciseGiven(ev) ==
    BodyIsObject(ev) /\ Field(ev, "exercise").t = "str" /\ Field(ev, "exercise").s # <<>>

ExerciseLacking(ev) == Field(ev, "exercise") \in {Absent, NoneV, StrV(<<>>)}

VersionsBy(i) ==
    {<<k, n>> \in UNION {{k} \X (1..Len(s3[k])) : k \in DOMAIN s3} : s3[k][n].by = i}

PublishedBy(i) == {msg \in sns : msg.by = i}

NoSideEffects(i) == inv[i].calls = <<>> /\ VersionsBy(i) = {} /\ PublishedBy(i) = {}

PutOk == [api |-> "put_object", ok |-> TRUE]

PutFailed == [api |-> "put_object", ok |-> FALSE]

PublishOk == [api |-> "publish", ok |-> TRUE]

PublishFailed == [api |-> "publish", ok |-> FALSE]

AllDigits(s) == \A k \in 1..Len(s) : s[k] \in {"0", "1", "2", "3", "4", "5", "6", "7", "8", "9"}

\* a decimal numeral: digits around at most one point, at least one digit
DecimalText(s) ==
    \E p \in 0..Len(s) + 1 :
        /\ \A k \in 1..Len(s) : k # p => s[k] \in {"0", "1", "2", "3", "4", "5", "6", "7", "8", "9"}
        /\ p \in 1..Len(s) => s[p] = "."
        /\ \E k \in 1..Len(s) : k # p

\* C1 (as claimed): an ingest request whose decoded body lacks `exercise`, or has
\* it empty or null, is answered 400 with an error payload and has no side effect
C1_AsClaimed ==
    \A i \in Invocations :
        (Started(i) /\ IsIngestRequest(inv[i].event) /\ BodyDecodes(inv[i].event)
           /\ (~BodyIsObject(inv[i].event) \/ ExerciseLacking(inv[i].event)))
        => /\ Done(i)
           /\ Status(i) = 400
           /\ NoSideEffects(i)

\* C1 (amended): an ingest request whose body is a key-value object (a str holding
\* a JSON object, a decoded dict, or the event itself) lacking `exercise`, or with
\* it empty or null, is answered 400 with the error payload and has no side
\* effect, whatever its other fields hold; a body that is null or decodes to a
\* non-object is answered 500, also with no side effect
C1_MissingExercise ==
    \A i \in Invocations :
        (Started(i) /\ IsIngestRequest(inv[i].event) /\ BodyDecodes(inv[i].event))
        => /\ (BodyIsObject(inv[i].event) /\ ExerciseLacking(inv[i].event))
                => /\ Done(i)
                   /\ Status(i) = 400
                   /\ inv[i].response.body = [error |-> "Exercise name is required"]
                   /\ NoSideEffects(i)
           /\ ~BodyIsObject(inv[i].event)
                => /\ Done(i)
                   /\ Status(i) = 500
                   /\ NoSideEffects(i)

C1_Witness ==
    \E i \in Invocations :
        /\ Done(i) /\ IsIngestRequest(inv[i].event) /\ BodyIsObject(inv[i].event)
        /\ Field(inv[i].event, "exercise") = StrV(<<>>)
        /\ Field(inv[i].event, "sets") = Abc
        /\ Status(i) = 400

(***************************************************************************)
(* C2                                                                      *)
(***************************************************************************)
\* an optional integer field that is absent, null, a JSON integer or a string of digits
WellFormedInt(v) ==
    \/ v \in {Absent, NoneV}
    \/ v.t = "int"
    \/ v.t = "str" /\ v.s # <<>> /\ AllDigits(v.s)

\* an optional number field that is absent, null, a JSON number or a decimal numeral
WellFormedNumber(v) ==
    \/ v \in {Absent, NoneV}
    \/ v.t \in {"int", "float"}
    \/ v.t = "str" /\ DecimalText(v.s)

WellFormed(ev) ==
    /\ WellFormedInt(Field(ev, "sets"))
    /\ WellFormedInt(Field(ev, "reps"))
    /\ WellFormedNumber(Field(ev, "weight"))

\* C2: an ingest request with a non-empty `exercise` and well-formed numeric
\* fields reaches put_object without returning; once its write and its publish
\* have succeeded it has returned 200 with the persisted record and the message
\* it published, having made exactly one put_object call and then exactly one
\* publish call, with one version stored and one message published
C2_SuccessPath ==
    \A i \in Invocations :
        (Started(i) /\ IsIngestRequest(inv[i].event) /\ ExerciseGiven(inv[i].event)
           /\ WellFormed(inv[i].event))
        => /\ inv[i].pc = "put" => inv[i].calls = <<>> /\ inv[i].response = NoneV
           /\ inv[i].pc = "publish" => inv[i].calls = <<PutOk>> /\ inv[i].response = NoneV
           /\ (Done(i) /\ \A n \in 1..Len(inv[i].calls) : inv[i].calls[n].ok)
                => /\ inv[i].calls = <<PutOk, PublishOk>>
                   /\ Status(i) = 200
                   /\ Cardinality(VersionsBy(i)) = 1
                   /\ \A v \in VersionsBy(i) :
                        s3[v[1]][v[2]].Body = inv[i].response.body.data
                   /\ Cardinality(PublishedBy(i)) = 1
                   /\ \A msg \in PublishedBy(i) :
                        /\ msg.Message.motivation = inv[i].response.body.motivation
                        /\ \E k \in 1..Len(MOTIVATIONAL_MESSAGES) :
                             MOTIVATIONAL_MESSAGES[k] = msg.Message.motivation

C2_Witness ==
    \E i \in Invocations :
        /\ Done(i) /\ Status(i) = 200
        /\ IsIngestRequest(inv[i].event) /\ ExerciseGiven(inv[i].event)
        /\ WellFormed(inv[i].event)
        /\ Field(inv[i].event, "sets") = StrV(<<"3">>)
        /\ Field(inv[i].event, "reps") = Absent
        /\ Field(inv[i].event, "weight") = FloatV(72, <<5>>)
        /\ inv[i].calls = <<PutOk, PublishOk>>

(***************************************************************************)
(* C5                                                                      *)
(***************************************************************************)
\* a string that is no decimal numeral, the empty string among them
NonNumericString(v) == v.t = "str" /\ ~DecimalText(v.s)

FailsBeforePersist(i) == Done(i) /\ Status(i) = 500 /\ NoSideEffects(i)

IntRejects(v) == v.t = "str" /\ v.s # <<>> /\ ~AllDigits(v.s)

\* a non-empty string float() rejects
FloatRejects(v) == v.t = "str" /\ v.s # <<>> /\ ~DecimalText(v.s)

AsFloat(v) == IF v.t = "int" THEN FloatV(v.n, <<>>) ELSE v

StoredAs(i, k, value) ==
    /\ inv[i].response.body.data[k] = value
    /\ \A v \in VersionsBy(i) : s3[v[1]][v[2]].Body[k] = value

\* C6: a request answered 200 has, in its response data and in the record it
\* stored, `sets` and `reps` equal to the integer its body supplied and `weight`
\* equal to the number its body supplied, as a float, and null for an absent field
C6_NumbersKept ==
    \A i \in Invocations :
        (Done(i) /\ Status(i) = 200 /\ IsIngestRequest(inv[i].event))
        => /\ \A k \in {"sets", "reps"} :
                /\ Field(inv[i].event, k).t = "int" => StoredAs(i, k, Field(inv[i].event, k))
                /\ Field(inv[i].event, k) = Absent => StoredAs(i, k, NoneV)
           /\ Field(inv[i].event, "weight").t \in {"int", "float"}
                => StoredAs(i, "weight", AsFloat(Field(inv[i].event, "weight")))
           /\ Field(inv[i].event, "weight") = Absent => StoredAs(i, "weight", NoneV)

(***************************************************************************)
(* C7                                                                      *)
(***************************************************************************)
GenericFailure(i) ==
    /\ Done(i)
    /\ Status(i) = 500
    /\ inv[i].response.body.error = "Failed to log workout"

\* C7: an invocation that has started either still has a service call to make
\* (and that call can be made) or has returned one response, of status 200, 400
\* or 500; a body that cannot be decoded, a numeric field that cannot be
\* converted, a failed write and a failed publish each end in 500 with the
\* generic error payload; after a failed write there is no publish call and no
\* second put_object call
C7_OneResponse ==
    \A i \in Invocations :
        Started(i)
        => /\ \/ /\ inv[i].pc = "put"
                 /\ inv[i].response = NoneV
                 /\ ENABLED PutObject(i)
              \/ /\ inv[i].pc = "publish"
                 /\ inv[i].response = NoneV
                 /\ ENABLED Publish(i)
              \/ /\ Done(i)
                 /\ Status(i) \in {200, 400, 500}
                 /\ ~ENABLED (PutObject(i) \/ Publish(i))
           /\ (IsIngestRequest(inv[i].event) /\ ~BodyDecodes(inv[i].event))
                => GenericFailure(i) /\ NoSideEffects(i)
           /\ (IsIngestRequest(inv[i].event) /\ ~BodyIsObject(inv[i].event))
                => GenericFailure(i) /\ NoSideEffects(i)
           /\ (/\ IsIngestRequest(inv[i].event) /\ ExerciseGiven(inv[i].event)
               /\ \/ IntRejects(Field(inv[i].event, "sets"))
                  \/ IntRejects(Field(inv[i].event, "reps"))
                  \/ FloatRejects(Field(inv[i].event, "weight")))
                => GenericFailure(i) /\ NoSideEffects(i)
           /\ (inv[i].calls # <<>> /\ inv[i].calls[1] = PutFailed)
                => /\ GenericFailure(i)
                   /\ inv[i].calls = <<PutFailed>>
                   /\ VersionsBy(i) = {} /\ PublishedBy(i) = {}
           /\ (Len(inv[i].calls) > 1 /\ inv[i].calls[2] = PublishFailed)
                => /\ GenericFailure(i)
                   /\ inv[i].calls = <<PutOk, PublishFailed>>
           /\ (Done(i) /\ Status(i) = 200 /\ IsIngestRequest(inv[i].event))
                => inv[i].calls = <<PutOk, PublishOk>>

C7_Witness ==
    \E i \in Invocations :
        /\ Done(i)
        /\ inv[i].calls = <<PutFailed>>
        /\ Status(i) = 500
        /\ inv[i].response.body.details = "ClientError"

(***************************************************************************)
(* C9, C10                                                                 *)
(***************************************************************************)
\* C9: a request whose method is OPTIONS is answered 200 with the CORS preflight
\* body, whatever its path and body, and has no side effect
C9_Preflight ==
    \A i \in Invocations :
        (Started(i) /\ IsOptionsRequest(inv[i].event))
        => /\ Done(i)
           /\ Status(i) = 200
           /\ inv[i].response.body = [message |-> "CORS preflight"]
           /\ inv[i].response.headers.AllowOrigin = "*"
           /\ NoSideEffects(i)

C9_Witness ==
    \E i \in Invocations :
        /\ Started(i)
        /\ inv[i].event.rcMethod = "OPTIONS"
        /\ inv[i].event.rawPath = "/health"
        /\ inv[i].event.body.kind = "str_invalid"
        /\ Done(i) /\ Status(i) = 200

\* C10: a request to /health whose method is not OPTIONS is answered 200 with
\* {status: healthy, message: Lambda is running}, whatever its body (undecodable,
\* null, without `exercise`), and has no side effect
C10_Health ==
    \A i \in Invocations :
        (Started(i) /\ ~IsOptionsRequest(inv[i].event) /\ IsHealthRequest(inv[i].event))
        => /\ Done(i)
           /\ Status(i) = 200
           /\ inv[i].response.body = [status |-> "healthy", message |-> "Lambda is running"]
           /\ NoSideEffects(i)

C10_Witness ==
    \E i \in Invocations :
        /\ Started(i)
        /\ inv[i].event.rcMethod = Missing
        /\ inv[i].event.httpMethod = "POST"
        /\ inv[i].event.rawPath = Missing
        /\ inv[i].event.path = "/health"
        /\ inv[i].event.body.kind = "str_invalid"
        /\ Done(i) /\ Status(i) = 200

(***************************************************************************)
(* C3, C4, C8: the bucket under concurrent invocations                     *)
(***************************************************************************)
\* the version invocation i wrote is among the versions of its key
Stored(i) ==
    /\ inv[i].file_key \in DOMAIN s3
    /\ \E n \in 1..Len(s3[inv[i].file_key]) :
         /\ s3[inv[i].file_key][n].by = i
         /\ s3[inv[i].file_key][n].Body = inv[i].workout_data

\* the key's current object: its latest version
Current(key) == s3[key][Len(s3[key])]

\* C3: an invocation whose write succeeded and whose publish then failed has
\* returned 500, and the record it wrote stays in the bucket, whatever the other
\* invocations do afterwards
C3_NoRollback ==
    \A i \in Invocations :
        inv[i].calls = <<PutOk, PublishFailed>>
        => /\ Done(i)
           /\ Status(i) = 500
           /\ Stored(i)
           /\ Cardinality(VersionsBy(i)) = 1

\* ... reached with a later write of another invocation to the same key
C3_Witness ==
    \E i, j \in Invocations :
        /\ i # j
        /\ inv[i].calls = <<PutOk, PublishFailed>>
        /\ Status(i) = 500
        /\ inv[j].calls # <<>> /\ inv[j].calls[1] = PutOk
        /\ inv[j].file_key = inv[i].file_key
        /\ Current(inv[i].file_key).by = j

Succeeded(i) == Done(i) /\ Status(i) = 200 /\ inv[i].calls = <<PutOk, PublishOk>>

SameUser(i, j) == inv[i].workout_data.userId = inv[j].workout_data.userId

\* the second a timestamp falls in
Second(ts) == <<ts.Y, ts.m, ts.d, ts.H, ts.M, ts.S>>

\* C4 (as claimed): of two successful invocations with the same userId, those
\* with timestamps in different seconds have distinct keys, both stored; those in
\* the same second share a key, for which storage holds exactly one record
C4_AsClaimed ==
    \A i, j \in Invocations :
        (i # j /\ Succeeded(i) /\ Succeeded(j) /\ SameUser(i, j))
        => /\ Second(inv[i].timestamp) # Second(inv[j].timestamp)
                => inv[i].file_key # inv[j].file_key /\ Stored(i) /\ Stored(j)
           /\ Second(inv[i].timestamp) = Second(inv[j].timestamp)
                => /\ inv[i].file_key = inv[j].file_key
                   /\ Len(s3[inv[i].file_key]) = 1

\* C4 (amended): of two successful invocations with the same userId, those with
\* timestamps in different seconds have distinct keys, both records stored; those
\* in the same second share the key {userId}/{year}/{month}/{date}_{time}.json,
\* and the write that lands second becomes the key's current object without any
\* error, while the first record is kept as an earlier version of the key (the
\* bucket is versioned), so the key holds a version for each of the two writes
C4_SameSecond ==
    \A i, j \in Invocations :
        (i # j /\ Succeeded(i) /\ Succeeded(j) /\ SameUser(i, j))
        => /\ Second(inv[i].timestamp) # Second(inv[j].timestamp)
                => inv[i].file_key # inv[j].file_key /\ Stored(i) /\ Stored(j)
           /\ Second(inv[i].timestamp) = Second(inv[j].timestamp)
                => /\ inv[i].file_key = inv[j].file_key
                   /\ inv[i].file_key.prefix = inv[i].workout_data.userId.s
                   /\ inv[i].file_key.name = Second(inv[i].timestamp)
                   /\ Stored(i) /\ Stored(j)
                   /\ Len(s3[inv[i].file_key]) >= 2

C4_Witness ==
    \E i, j \in Invocations :
        /\ i # j /\ Succeeded(i) /\ Succeeded(j) /\ SameUser(i, j)
        /\ inv[i].timestamp # inv[j].timestamp
        /\ Second(inv[i].timestamp) = Second(inv[j].timestamp)
        /\ s3[inv[i].file_key][1].by = i
        /\ Current(inv[i].file_key).by = j

\* C8: every version in the bucket holds a non-empty `exercise` and the
\* timestamp its writer read from the clock (never one the request sent), with
\* `date` and `time` taken from that timestamp, under the key made of its own
\* userId and timestamp; its writer passed validation and conversion and made a
\* successful put_object call, and wrote nothing else; an invocation answered
\* 400, a preflight, a health check and an invocation that failed before or in
\* its put_object call have no version in the bucket
C8_StoredRecords ==
    /\ \A key \in DOMAIN s3 : \A n \in 1..Len(s3[key]) :
        LET rec == s3[key][n].Body
            i == s3[key][n].by
        IN  /\ rec.exercise.t = "str" /\ rec.exercise.s # <<>>
            /\ \E k \in 1..clock :
                 /\ rec.timestamp = <<Instants[k].Y, Instants[k].m, Instants[k].d, "T",
                                      Instants[k].H, Instants[k].M, Instants[k].S, Instants[k].us>>
                 /\ inv[i].timestamp = Instants[k]
                 /\ rec.date = <<Instants[k].Y, Instants[k].m, Instants[k].d>>
                 /\ rec.time = <<Instants[k].H, Instants[k].M, Instants[k].S>>
                 /\ key = [prefix |-> rec.userId.s,
                           ym |-> <<Instants[k].Y, Instants[k].m>>,
                           name |-> Second(Instants[k]),
                           ext |-> ".json"]
            /\ rec.userId =
                 IF Field(inv[i].event, "userId") = Absent THEN StrV(Anonymous)
                 ELSE Field(inv[i].event, "userId")
            /\ rec.exercise = Field(inv[i].event, "exercise")
            /\ IsIngestRequest(inv[i].event) /\ ExerciseGiven(inv[i].event)
            /\ inv[i].pc \in {"publish", "done"}
            /\ inv[i].calls # <<>> /\ inv[i].calls[1] = PutOk
            /\ VersionsBy(i) = {<<key, n>>}
    /\ \A i \in Invocations :
        (\/ ~Started(i)
         \/ inv[i].pc = "put"
         \/ Done(i) /\ Status(i) = 400
         \/ Started(i) /\ ~IsIngestRequest(inv[i].event)
         \/ Done(i) /\ (inv[i].calls = <<>> \/ inv[i].calls[1] = PutFailed))
        => VersionsBy(i) = {}

\* ... reached with a stored record beside a rejected request that carried a
\* client timestamp
C8_Witness ==
    \E i, j \in Invocations :
        /\ Done(i) /\ Status(i) = 400
        /\ Field(inv[i].event, "timestamp") = ClientTs
        /\ Started(j) /\ VersionsBy(j) # {}
        /\ Field(inv[j].event, "timestamp") = ClientTs
        /\ Field(inv[j].event, "userId") = StrV(U1)

====
